---- MODULE Spec2Model ----
(***************************************************************************)
(* A model of the DataViewer class of src/script.js: the CSV parser, the   *)
(* filter / sort / pagination engine and the event handlers that drive     *)
(* them (login, logout, asynchronous load, debounced search, paging).      *)
(*                                                                         *)
(* JavaScript strings are TLA+ strings; a character is a string of length  *)
(* one, read with SubSeq.  A JavaScript object (a CSV row) is a function   *)
(* from its keys to its values.  null / undefined is the empty sequence    *)
(* and a present value v is <<v>>.                                         *)
(***************************************************************************)
EXTENDS Integers, Sequences, FiniteSets, TLC

(***************************************************************************)
(* Bounds of the model.                                                    *)
(***************************************************************************)
\* longest CSV text enumerated for the parser
MaxLen == 5
\* loads in flight at one time
MaxInFlight == 2
\* page sizes 1..MaxPageSize offered besides the default and "all"
MaxPageSize == 2

(***************************************************************************)
(* String primitives of the JavaScript runtime.                            *)
(***************************************************************************)
Range(s) == {s[i] : i \in DOMAIN s}

Max(a, b) == IF a >= b THEN a ELSE b

Min(a, b) == IF a <= b THEN a ELSE b

\* line[i] with a 0-based index; past the end it is undefined
CharAt(s, i) == IF i >= 0 /\ i < Len(s) THEN <<SubSeq(s, i + 1, i + 1)>> ELSE <<>>

\* the characters String.prototype.trim removes
WhiteSpace == {" ", "\n", "\t", "\r"}

RECURSIVE TrimStart(_)
TrimStart(s) ==
    IF Len(s) > 0 /\ SubSeq(s, 1, 1) \in WhiteSpace
    THEN TrimStart(SubSeq(s, 2, Len(s)))
    ELSE s

RECURSIVE TrimEnd(_)
TrimEnd(s) ==
    IF Len(s) > 0 /\ SubSeq(s, Len(s), Len(s)) \in WhiteSpace
    THEN TrimEnd(SubSeq(s, 1, Len(s) - 1))
    ELSE s

\* String.prototype.trim
Trim(s) == TrimEnd(TrimStart(s))

\* String.prototype.split('\n'): the pieces between newlines, empty ones kept
RECURSIVE SplitLines(_, _, _)
SplitLines(s, i, cur) ==
    IF i > Len(s) THEN <<cur>>
    ELSE IF SubSeq(s, i, i) = "\n"
         THEN <<cur>> \o SplitLines(s, i + 1, "")
         ELSE SplitLines(s, i + 1, cur \o SubSeq(s, i, i))

Split(s) == SplitLines(s, 1, "")

\* String.prototype.toLowerCase on the letters of the model
LowerOf(c) ==
    CASE c = "A" -> "a"
      [] c = "B" -> "b"
      [] c = "C" -> "c"
      [] c = "Z" -> "z"
      [] OTHER -> c

RECURSIVE ToLowerCase(_)
ToLowerCase(s) ==
    IF Len(s) = 0 THEN ""
    ELSE LowerOf(SubSeq(s, 1, 1)) \o ToLowerCase(SubSeq(s, 2, Len(s)))

\* String.prototype.includes
Includes(s, t) ==
    \E i \in 1..(Len(s) - Len(t) + 1) : SubSeq(s, i, i + Len(t) - 1) = t

(***************************************************************************)
(* parseCSVLine: the quote-aware splitter, a loop over the characters with *)
(* the locals i, current, inQuotes and result.                             *)
(***************************************************************************)
RECURSIVE parseCSVLineFrom_NoEscape(_, _, _, _, _)
\* the splitter had every quote toggled inQuotes, a doubled one too
parseCSVLineFrom_NoEscape(line, i, current, inQuotes, result) ==
    IF i >= Len(line) THEN Append(result, Trim(current))
    ELSE LET char == SubSeq(line, i + 1, i + 1) IN
         IF char = "\""
         THEN parseCSVLineFrom_NoEscape(line, i + 1, current, ~inQuotes, result)
         ELSE IF char = "," /\ ~inQuotes
              THEN parseCSVLineFrom_NoEscape(line, i + 1, "", inQuotes,
                                             Append(result, Trim(current)))
              ELSE parseCSVLineFrom_NoEscape(line, i + 1, current \o char,
                                             inQuotes, result)

RECURSIVE parseCSVLineFrom(_, _, _, _, _)
parseCSVLineFrom(line, i, current, inQuotes, result) ==
    IF i >= Len(line) THEN Append(result, Trim(current))
    ELSE LET char == SubSeq(line, i + 1, i + 1) IN
         IF char = "\""
         THEN IF inQuotes /\ CharAt(line, i + 1) = <<"\"">>
              THEN parseCSVLineFrom(line, i + 2, current \o "\"", inQuotes, result)
              ELSE parseCSVLineFrom(line, i + 1, current, ~inQuotes, result)
         ELSE IF char = "," /\ ~inQuotes
              THEN parseCSVLineFrom(line, i + 1, "", inQuotes,
                                    Append(result, Trim(current)))
              ELSE parseCSVLineFrom(line, i + 1, current \o char, inQuotes, result)

parseCSVLine(line) == parseCSVLineFrom(line, 0, "", FALSE, <<>>)

(***************************************************************************)
(* parseCSV: trim, split into lines, the first line is the header, every   *)
(* later line with as many fields as the header becomes a row object.      *)
(***************************************************************************)
\* the object built by headers.forEach: a later duplicate header overwrites
MakeRow(headers, values) ==
    [h \in Range(headers) |->
        LET last == CHOOSE i \in DOMAIN headers :
                        /\ headers[i] = h
                        /\ \A j \in DOMAIN headers : headers[j] = h => j <= i
        IN values[last]]

RECURSIVE parseCSVRows(_, _, _)
parseCSVRows(lines, headers, i) ==
    IF i > Len(lines) THEN <<>>
    ELSE LET values == parseCSVLine(lines[i]) IN
         (IF Len(values) = Len(headers)
          THEN <<MakeRow(headers, values)>>
          ELSE <<>>) \o parseCSVRows(lines, headers, i + 1)

\* parseCSV had it split the text without trimming it
parseCSV_NoTrim(csv) ==
    LET lines == Split(csv) IN
    IF Len(lines) < 2 THEN <<>>
    ELSE parseCSVRows(lines, parseCSVLine(lines[1]), 2)

parseCSV(csv) ==
    LET lines == Split(Trim(csv)) IN
    IF Len(lines) < 2 THEN <<>>
    ELSE parseCSVRows(lines, parseCSVLine(lines[1]), 2)

(***************************************************************************)
(* Math.ceil(n / d) on integers, d # 0.                                    *)
(***************************************************************************)
CeilDiv(n, d) == IF d > 0 THEN -((-n) \div d) ELSE -(n \div (-d))

\* Array.prototype.slice(start, end) with 0-based, non-negative indices
Slice(s, start, end) ==
    IF start >= Min(end, Len(s)) THEN <<>>
    ELSE SubSeq(s, start + 1, Min(end, Len(s)))

(***************************************************************************)
(* The filter of filterData.                                               *)
(***************************************************************************)
\* the callback of filtered.filter: does the row match the search term
RowMatches(row, term, column) ==
    IF column # ""
    THEN /\ column \in DOMAIN row
         /\ Includes(ToLowerCase(row[column]), term)
    ELSE \E k \in DOMAIN row : Includes(ToLowerCase(row[k]), term)

\* the filter had it applied the column filter without a search term too,
\* keeping the rows whose cell in that column is not empty
filterRows_ColumnWithoutTerm(rows, term, column) ==
    IF term # ""
    THEN SelectSeq(rows, LAMBDA row : RowMatches(row, term, column))
    ELSE IF column # ""
         THEN SelectSeq(rows, LAMBDA row : column \in DOMAIN row /\ Len(row[column]) > 1)
         ELSE rows

filterRows(rows, term, column) ==
    IF term # ""
    THEN SelectSeq(rows, LAMBDA row : RowMatches(row, term, column))
    ELSE rows

(***************************************************************************)
(* The sort of filterData.  Cell texts of the model hold letters, digits   *)
(* and spaces only, so parseFloat reads a leading run of digits.           *)
(***************************************************************************)
Digits == <<"0", "1", "2", "3", "4", "5", "6", "7", "8", "9">>

IsDigit(c) == \E d \in DOMAIN Digits : Digits[d] = c

DigitValue(c) == (CHOOSE d \in DOMAIN Digits : Digits[d] = c) - 1

RECURSIVE DigitRun(_, _)
\* the length of the run of digits of s that starts at position i (1-based)
DigitRun(s, i) ==
    IF i <= Len(s) /\ IsDigit(SubSeq(s, i, i)) THEN 1 + DigitRun(s, i + 1) ELSE 0

RECURSIVE NumberOf(_)
\* the value of a string of digits
NumberOf(s) ==
    IF Len(s) = 0 THEN 0
    ELSE 10 * NumberOf(SubSeq(s, 1, Len(s) - 1)) + DigitValue(SubSeq(s, Len(s), Len(s)))

\* parseFloat: <<n>> for a number, <<>> for NaN
parseFloat(s) ==
    LET t == TrimStart(s)
        n == DigitRun(t, 1)
    IN IF n = 0 THEN <<>> ELSE <<NumberOf(SubSeq(t, 1, n))>>

\* the letters of the model in alphabetical order
Letters == <<"a", "b", "c", "z">>

LetterRank(c) == CHOOSE k \in DOMAIN Letters : Letters[k] = LowerOf(c)

IsLetter(c) == \E k \in DOMAIN Letters : Letters[k] = LowerOf(c)

RECURSIVE CollationKey(_, _)
\* the primary collation elements of s from position i, with { numeric: true }:
\* other characters sort before numbers, numbers before letters, a run of
\* digits is one number, letters compare without case
CollationKey(s, i) ==
    IF i > Len(s) THEN <<>>
    ELSE LET c == SubSeq(s, i, i)
             n == DigitRun(s, i)
         IN IF n > 0
            THEN <<<<1, NumberOf(SubSeq(s, i, i + n - 1))>>>> \o CollationKey(s, i + n)
            ELSE IF IsLetter(c)
                 THEN <<<<2, LetterRank(c)>>>> \o CollationKey(s, i + 1)
                 ELSE <<<<0, 0>>>> \o CollationKey(s, i + 1)

RECURSIVE CompareKeys(_, _, _)
CompareKeys(ka, kb, i) ==
    IF i > Len(ka) /\ i > Len(kb) THEN 0
    ELSE IF i > Len(ka) THEN -1
    ELSE IF i > Len(kb) THEN 1
    ELSE IF ka[i][1] # kb[i][1] THEN (IF ka[i][1] < kb[i][1] THEN -1 ELSE 1)
    ELSE IF ka[i][2] # kb[i][2] THEN (IF ka[i][2] < kb[i][2] THEN -1 ELSE 1)
    ELSE CompareKeys(ka, kb, i + 1)

RECURSIVE CompareCase(_, _, _)
\* the tie-break between texts with equal primary keys: at the first
\* difference the lower-case letter comes first
CompareCase(a, b, i) ==
    IF i > Len(a) \/ i > Len(b) THEN 0
    ELSE IF SubSeq(a, i, i) = SubSeq(b, i, i) THEN CompareCase(a, b, i + 1)
    ELSE IF LowerOf(SubSeq(a, i, i)) = SubSeq(a, i, i) THEN -1 ELSE 1

\* aVal.localeCompare(bVal, undefined, { numeric: true })
localeCompare(a, b) ==
    LET c == CompareKeys(CollationKey(a, 1), CollationKey(b, 1), 1)
    IN IF c # 0 THEN c ELSE CompareCase(a, b, 1)

\* a[this.sortColumn]?.toString() || ''
SortValue(row, column) == IF column \in DOMAIN row THEN row[column] ELSE ""

\* the comparator had it subtracted the same way for both directions
compareRows_IgnoresDirection(a, b, column, direction) ==
    LET aVal == SortValue(a, column)
        bVal == SortValue(b, column)
        aNum == parseFloat(aVal)
        bNum == parseFloat(bVal)
    IN IF aNum # <<>> /\ bNum # <<>>
       THEN aNum[1] - bNum[1]
       ELSE LET comparison == localeCompare(aVal, bVal)
            IN IF direction = "asc" THEN comparison ELSE -comparison

\* the comparator handed to filtered.sort
compareRows(a, b, column, direction) ==
    LET aVal == SortValue(a, column)
        bVal == SortValue(b, column)
        aNum == parseFloat(aVal)
        bNum == parseFloat(bVal)
    IN IF aNum # <<>> /\ bNum # <<>>
       THEN (IF direction = "asc" THEN aNum[1] - bNum[1] ELSE bNum[1] - aNum[1])
       ELSE LET comparison == localeCompare(aVal, bVal)
            IN IF direction = "asc" THEN comparison ELSE -comparison

RECURSIVE InsertSorted_DropsTies(_, _, _, _)
\* the sort had it kept one row only of those that compare equal
InsertSorted_DropsTies(sorted, x, column, direction) ==
    IF Len(sorted) = 0 THEN <<x>>
    ELSE LET c == compareRows(sorted[Len(sorted)], x, column, direction) IN
         IF c > 0
         THEN Append(InsertSorted_DropsTies(SubSeq(sorted, 1, Len(sorted) - 1), x,
                                            column, direction),
                     sorted[Len(sorted)])
         ELSE IF c = 0 THEN sorted
         ELSE Append(sorted, x)

RECURSIVE InsertSorted(_, _, _, _)
\* x put behind every element of the sorted sequence that does not compare
\* greater than it (Array.prototype.sort is stable)
InsertSorted(sorted, x, column, direction) ==
    IF Len(sorted) = 0 THEN <<x>>
    ELSE IF compareRows(sorted[Len(sorted)], x, column, direction) > 0
         THEN Append(InsertSorted(SubSeq(sorted, 1, Len(sorted) - 1), x,
                                  column, direction),
                     sorted[Len(sorted)])
         ELSE Append(sorted, x)

RECURSIVE SortFrom(_, _, _, _)
SortFrom(rows, i, column, direction) ==
    IF i = 0 THEN <<>>
    ELSE InsertSorted(SortFrom(rows, i - 1, column, direction), rows[i],
                      column, direction)

\* if (this.sortColumn): null and the empty string are falsy
IsSet(column) == column # <<>> /\ column[1] # ""

\* sortRows had it sorted by the column n when no sort column is set
sortRows_SortsUnset(rows, column, direction) ==
    IF IsSet(column) THEN SortFrom(rows, Len(rows), column[1], direction)
    ELSE SortFrom(rows, Len(rows), "n", direction)

sortRows(rows, column, direction) ==
    IF IsSet(column) THEN SortFrom(rows, Len(rows), column[1], direction)
    ELSE rows

(***************************************************************************)
(* The state of the viewer.                                                *)
(***************************************************************************)
VARIABLES
    data, filteredData, currentPage, itemsPerPage,      \* the fields of
    sortColumn, sortDirection, searchTerm, columnFilter, \* DataViewer
    authenticated,   \* sessionStorage holds dataviewer_authenticated = 'true'
    appShown,        \* appContainer is visible (loginContainer is hidden)
    spinnerShown, errorShown, tableShown, paginationShown,  \* what is displayed
    tableHead,       \* the column headers setupTable rendered
    tableBody,       \* the rows renderTable rendered
    pagination,      \* what updatePagination computed and rendered
    fetching,        \* loads awaiting fetch()
    reading,         \* loads awaiting response.text()
    timeout,         \* the variable timeout of debounce: the id of the timer it set
    timers,          \* the timers set with setTimeout and not yet fired or cleared
    csvText, parsed, fields, ppc   \* the parser applied to a text on its own

vars == <<data, filteredData, currentPage, itemsPerPage, sortColumn,
          sortDirection, searchTerm, columnFilter, authenticated, appShown,
          spinnerShown, errorShown, tableShown, paginationShown, tableHead,
          tableBody, pagination, fetching, reading, timeout, timers,
          csvText, parsed, fields, ppc>>

viewerVars == <<data, filteredData, currentPage, itemsPerPage, sortColumn,
                sortDirection, searchTerm, columnFilter, authenticated, appShown,
                spinnerShown, errorShown, tableShown, paginationShown, tableHead,
                tableBody, pagination, fetching, reading, timeout, timers>>

pvars == <<csvText, parsed, fields, ppc>>

\* this.itemsPerPage = 25 in the constructor
DefaultItemsPerPage == 25

\* the value of the "all" option of entriesSelect
ShowAll == -1

\* const maxVisible = 5 in renderPageNumbers
maxVisible == 5

\* this.password
Password == "contentsquare2025"

(***************************************************************************)
(* Inputs of the environment.                                              *)
(***************************************************************************)
\* the texts the server may answer a fetch of csvFile with
ServerTexts ==
    { "n,v\nB,10\nab,2\nc,1",    \* three rows, a text and a numeric column
      "n\nb\nz,9",               \* one row and one line with a field too many
      "n\n" }                    \* a header and no row

\* what the user may type into searchInput
SearchInputs == {"", "B"}

\* the values of the options of entriesSelect
EntriesOptions == {"-1", "25"} \cup {Digits[n + 1] : n \in 1..MaxPageSize}

\* what the user may submit as the password
PasswordInputs == {"", Password, "guess"}

(***************************************************************************)
(* renderTable: the rows put into tableBody.                               *)
(***************************************************************************)
\* renderTable had it started the slice a page late
renderTable_StartsLate(rows, page, perPage) ==
    IF Len(rows) = 0 THEN <<>>
    ELSE LET startIndex == IF perPage = ShowAll THEN 0 ELSE page * perPage
             endIndex == IF perPage = ShowAll THEN Len(rows) ELSE startIndex + perPage
         IN Slice(rows, startIndex, endIndex)

renderTable(rows, page, perPage) ==
    IF Len(rows) = 0 THEN <<>>
    ELSE LET startIndex == IF perPage = ShowAll THEN 0 ELSE (page - 1) * perPage
             endIndex == IF perPage = ShowAll THEN Len(rows) ELSE startIndex + perPage
         IN Slice(rows, startIndex, endIndex)

(***************************************************************************)
(* renderPageNumbers: the page numbers that get a button.                  *)
(***************************************************************************)
renderPageNumbers(totalPages, page) ==
    IF totalPages <= 1 THEN {}
    ELSE LET startPage0 == Max(1, page - (maxVisible \div 2))
             endPage == Min(totalPages, startPage0 + maxVisible - 1)
             startPage == IF endPage - startPage0 < maxVisible - 1
                          THEN Max(1, endPage - maxVisible + 1)
                          ELSE startPage0
         IN (IF startPage > 1 THEN {1} ELSE {})
            \cup (startPage..endPage)
            \cup (IF endPage < totalPages THEN {totalPages} ELSE {})

(***************************************************************************)
(* updatePagination: the page count, the "Showing X to Y of Z" numbers and *)
(* the page buttons.                                                       *)
(***************************************************************************)
\* updatePagination had it divided by the page size of "all" too, as
\* nextPage does
TotalPages_NoSentinel(totalItems, perPage) == CeilDiv(totalItems, perPage)

TotalPages(totalItems, perPage) ==
    IF perPage = ShowAll THEN 1 ELSE CeilDiv(totalItems, perPage)

updatePagination(rows, page, perPage) ==
    LET totalItems == Len(rows)
        totalPages == TotalPages(totalItems, perPage)
    IN [ totalPages  |-> totalPages,
         totalItems  |-> totalItems,
         showingAll  |-> perPage = ShowAll,
         startItem   |-> IF perPage = ShowAll THEN 0
                         ELSE IF totalItems = 0 THEN 0 ELSE (page - 1) * perPage + 1,
         endItem     |-> IF perPage = ShowAll THEN 0
                         ELSE Min(page * perPage, totalItems),
         pageNumbers |-> renderPageNumbers(totalPages, page) ]

\* paginationContainer.style.display = 'flex' at the end of updatePagination
PaginationDisplayed(perPage, totalPages) == ~(perPage = ShowAll \/ totalPages <= 1)

\* what the pagination elements hold before updatePagination ran: nothing
NoPagination == <<>>

\* the page buttons in paginationContainer
PageButtons == IF pagination = NoPagination THEN {} ELSE pagination[1].pageNumbers

\* renderTable() and updatePagination() on the state the handler leaves
Rendered ==
    /\ tableBody' = renderTable(filteredData', currentPage', itemsPerPage')
    /\ pagination' = <<updatePagination(filteredData', currentPage', itemsPerPage')>>
    /\ paginationShown' =
           PaginationDisplayed(itemsPerPage', TotalPages(Len(filteredData'), itemsPerPage'))

(***************************************************************************)
(* filterData: filter, sort, store, render.                                *)
(***************************************************************************)
filterData ==
    /\ filteredData' = sortRows(filterRows(data', searchTerm', columnFilter'),
                                sortColumn', sortDirection')
    /\ Rendered

(***************************************************************************)
(* The constructor, init and checkAuthentication.                          *)
(***************************************************************************)
ParserIdle ==
    /\ csvText = ""
    /\ parsed = <<>>
    /\ fields = <<>>
    /\ ppc = "idle"

Constructed ==
    /\ data = <<>>
    /\ filteredData = <<>>
    /\ currentPage = 1
    /\ itemsPerPage = DefaultItemsPerPage
    /\ sortColumn = <<>>
    /\ sortDirection = "asc"
    /\ searchTerm = ""
    /\ columnFilter = ""
    /\ errorShown = FALSE
    /\ tableShown = FALSE
    /\ paginationShown = FALSE
    /\ tableHead = {}
    /\ tableBody = <<>>
    /\ pagination = NoPagination
    /\ reading = 0
    /\ timeout = <<>>
    /\ timers = <<>>

\* the session flag survives a reload of the page: checkAuthentication then
\* shows the application and starts a load
Init ==
    /\ Constructed
    /\ ParserIdle
    /\ authenticated \in BOOLEAN
    /\ appShown = authenticated
    /\ spinnerShown = authenticated
    /\ fetching = (IF authenticated THEN 1 ELSE 0)

(***************************************************************************)
(* showLoading, hideLoading, showErrorMessage.                             *)
(***************************************************************************)
showLoading ==
    /\ spinnerShown' = TRUE
    /\ errorShown' = FALSE
    /\ tableShown' = FALSE
    /\ paginationShown' = FALSE

\* showErrorMessage had it left the table and the pagination as they were
showErrorMessage_KeepsTable ==
    /\ spinnerShown' = FALSE
    /\ errorShown' = TRUE
    /\ UNCHANGED <<tableShown, paginationShown>>

showErrorMessage ==
    /\ spinnerShown' = FALSE
    /\ errorShown' = TRUE
    /\ tableShown' = FALSE
    /\ paginationShown' = FALSE

(***************************************************************************)
(* handleLogin.  The form is in loginContainer, hidden while the           *)
(* application is shown.                                                   *)
(***************************************************************************)
handleLogin(enteredPassword) ==
    /\ ~appShown
    /\ IF Trim(enteredPassword) = Password /\ Trim(enteredPassword) # ""
       THEN /\ fetching + reading < MaxInFlight
            /\ authenticated' = TRUE
            /\ appShown' = TRUE
            /\ showLoading
            /\ fetching' = fetching + 1
            /\ UNCHANGED <<data, filteredData, currentPage, itemsPerPage, sortColumn,
                           sortDirection, searchTerm, columnFilter, tableHead,
                           tableBody, pagination, reading, timeout, timers>>
       ELSE \* showError: only the login form changes
            UNCHANGED <<data, filteredData, currentPage, itemsPerPage, sortColumn,
                        sortDirection, searchTerm, columnFilter, authenticated,
                        appShown, spinnerShown, errorShown, tableShown,
                        paginationShown, tableHead, tableBody, pagination,
                        fetching, reading, timeout, timers>>
    /\ UNCHANGED pvars

(***************************************************************************)
(* handleLogout.  logoutBtn is in appContainer.                            *)
(***************************************************************************)
handleLogout(confirmed) ==
    /\ appShown
    /\ IF confirmed
       THEN /\ authenticated' = FALSE
            /\ appShown' = FALSE
            /\ data' = <<>>
            /\ filteredData' = <<>>
            /\ currentPage' = 1
            /\ searchTerm' = ""
            /\ columnFilter' = ""
            /\ UNCHANGED <<itemsPerPage, sortColumn, sortDirection, spinnerShown,
                           errorShown, tableShown, paginationShown, tableHead,
                           tableBody, pagination, fetching, reading, timeout, timers>>
       ELSE UNCHANGED <<data, filteredData, currentPage, itemsPerPage, sortColumn,
                        sortDirection, searchTerm, columnFilter, authenticated,
                        appShown, spinnerShown, errorShown, tableShown,
                        paginationShown, tableHead, tableBody, pagination,
                        fetching, reading, timeout, timers>>
    /\ UNCHANGED pvars

(***************************************************************************)
(* loadData after showLoading: the fetch settles, then the text, then the  *)
(* rest of the try block or the catch block runs.                          *)
(***************************************************************************)
\* the catch block
loadFailed ==
    /\ showErrorMessage
    /\ UNCHANGED <<data, filteredData, currentPage, itemsPerPage, sortColumn,
                   sortDirection, searchTerm, columnFilter, authenticated, appShown,
                   tableHead, tableBody, pagination, timeout, timers>>

\* fetch() rejects
fetchRejected ==
    /\ fetching > 0
    /\ fetching' = fetching - 1
    /\ loadFailed
    /\ UNCHANGED reading
    /\ UNCHANGED pvars

\* fetch() resolves with ok false or true
fetchResolved(ok) ==
    /\ fetching > 0
    /\ fetching' = fetching - 1
    /\ IF ok
       THEN /\ reading' = reading + 1
            /\ UNCHANGED <<data, filteredData, currentPage, itemsPerPage, sortColumn,
                           sortDirection, searchTerm, columnFilter, authenticated,
                           appShown, spinnerShown, errorShown, tableShown,
                           paginationShown, tableHead, tableBody, pagination, timeout, timers>>
       ELSE /\ loadFailed
            /\ UNCHANGED reading
    /\ UNCHANGED pvars

\* response.text() rejects
textRejected ==
    /\ reading > 0
    /\ reading' = reading - 1
    /\ loadFailed
    /\ UNCHANGED fetching
    /\ UNCHANGED pvars

\* setupTable: the headers of the first row become the table head
setupTable(rows) == IF Len(rows) = 0 THEN tableHead ELSE DOMAIN rows[1]

\* response.text() resolves
textResolved(text) ==
    /\ reading > 0
    /\ reading' = reading - 1
    /\ data' = parseCSV(text)
    /\ UNCHANGED <<currentPage, itemsPerPage, sortColumn, sortDirection, searchTerm,
                   columnFilter, authenticated, appShown, fetching, timeout, timers>>
    /\ IF Len(data') = 0
       THEN /\ showErrorMessage
            /\ UNCHANGED <<filteredData, tableHead, tableBody, pagination>>
       ELSE /\ tableHead' = setupTable(data')
            /\ filterData
            \* hideLoading
            /\ spinnerShown' = FALSE
            /\ tableShown' = TRUE
            /\ UNCHANGED errorShown
    /\ UNCHANGED pvars

(***************************************************************************)
(* The handlers of the controls.  The controls are in appContainer, the    *)
(* column headers in dataTable, the page buttons in paginationContainer.   *)
(***************************************************************************)
\* handleSort had it also gone back to the first page
handleSort_ResetsPage(column) ==
    /\ appShown /\ tableShown
    /\ column \in tableHead
    /\ IF sortColumn = <<column>>
       THEN /\ sortDirection' = (IF sortDirection = "asc" THEN "desc" ELSE "asc")
            /\ UNCHANGED sortColumn
       ELSE /\ sortColumn' = <<column>>
            /\ sortDirection' = "asc"
    /\ currentPage' = 1
    /\ UNCHANGED <<data, itemsPerPage, searchTerm, columnFilter>>
    /\ filterData
    /\ UNCHANGED <<authenticated, appShown, spinnerShown, errorShown, tableShown,
                   tableHead, fetching, reading, timeout, timers>>
    /\ UNCHANGED pvars

\* filterData had it sorted this.data itself, not a copy of it
handleSort_SortsData(column) ==
    /\ appShown /\ tableShown
    /\ column \in tableHead
    /\ IF sortColumn = <<column>>
       THEN /\ sortDirection' = (IF sortDirection = "asc" THEN "desc" ELSE "asc")
            /\ UNCHANGED sortColumn
       ELSE /\ sortColumn' = <<column>>
            /\ sortDirection' = "asc"
    /\ data' = (IF searchTerm = "" THEN sortRows(data, sortColumn', sortDirection')
                ELSE data)
    /\ UNCHANGED <<currentPage, itemsPerPage, searchTerm, columnFilter>>
    /\ filteredData' = sortRows(filterRows(data, searchTerm', columnFilter'),
                                sortColumn', sortDirection')
    /\ Rendered
    /\ UNCHANGED <<authenticated, appShown, spinnerShown, errorShown, tableShown,
                   tableHead, fetching, reading, timeout, timers>>
    /\ UNCHANGED pvars

\* handleSort had it flipped the direction on a click on another column too
handleSort_AlwaysFlips(column) ==
    /\ appShown /\ tableShown
    /\ column \in tableHead
    /\ sortColumn' = <<column>>
    /\ sortDirection' = (IF sortDirection = "asc" THEN "desc" ELSE "asc")
    /\ UNCHANGED <<data, currentPage, itemsPerPage, searchTerm, columnFilter>>
    /\ filterData
    /\ UNCHANGED <<authenticated, appShown, spinnerShown, errorShown, tableShown,
                   tableHead, fetching, reading, timeout, timers>>
    /\ UNCHANGED pvars

handleSort(column) ==
    /\ appShown /\ tableShown
    /\ column \in tableHead
    /\ IF sortColumn = <<column>>
       THEN /\ sortDirection' = (IF sortDirection = "asc" THEN "desc" ELSE "asc")
            /\ UNCHANGED sortColumn
       ELSE /\ sortColumn' = <<column>>
            /\ sortDirection' = "asc"
    /\ UNCHANGED <<data, currentPage, itemsPerPage, searchTerm, columnFilter>>
    /\ filterData
    /\ UNCHANGED <<authenticated, appShown, spinnerShown, errorShown, tableShown,
                   tableHead, fetching, reading, timeout, timers>>
    /\ UNCHANGED pvars

\* handleSearch had it stored the term as typed
handleSearch_KeepsCase(term) ==
    /\ searchTerm' = term
    /\ currentPage' = 1
    /\ UNCHANGED <<data, itemsPerPage, sortColumn, sortDirection, columnFilter>>
    /\ filterData
    /\ UNCHANGED <<authenticated, appShown, spinnerShown, errorShown, tableShown,
                   tableHead, fetching, reading>>
    /\ UNCHANGED pvars

\* the body of handleSearch
handleSearch(term) ==
    /\ searchTerm' = ToLowerCase(term)
    /\ currentPage' = 1
    /\ UNCHANGED <<data, itemsPerPage, sortColumn, sortDirection, columnFilter>>
    /\ filterData
    /\ UNCHANGED <<authenticated, appShown, spinnerShown, errorShown, tableShown,
                   tableHead, fetching, reading>>
    /\ UNCHANGED pvars

\* clearTimeout(timeout) on the pending timers: the timer with that id, if
\* there is one, is gone
clearTimeout(pending, id) ==
    SelectSeq(pending, LAMBDA timer : id = <<>> \/ timer.id # id[1])

\* the id setTimeout returns: one no pending timer has
NewTimerId(pending) ==
    CHOOSE n \in 1..(Len(pending) + 1) :
        /\ \A k \in DOMAIN pending : pending[k].id # n
        /\ \A m \in 1..(n - 1) : \E k \in DOMAIN pending : pending[k].id = m

\* executedFunction had it set the new timer without clearing the pending one
searchInput_KeepsPending(value) ==
    /\ appShown
    /\ timers' = Append(timers, [id |-> NewTimerId(timers), args |-> value])
    /\ timeout' = <<NewTimerId(timers)>>
    /\ UNCHANGED <<data, filteredData, currentPage, itemsPerPage, sortColumn,
                   sortDirection, searchTerm, columnFilter, authenticated, appShown,
                   spinnerShown, errorShown, tableShown, paginationShown, tableHead,
                   tableBody, pagination, fetching, reading>>
    /\ UNCHANGED pvars

\* an input event of searchInput, executedFunction of debounce:
\* clearTimeout(timeout); timeout = setTimeout(later, wait)
searchInput(value) ==
    /\ appShown
    /\ LET pending == clearTimeout(timers, timeout)
           id == NewTimerId(pending)
       IN /\ timers' = Append(pending, [id |-> id, args |-> value])
          /\ timeout' = <<id>>
    /\ UNCHANGED <<data, filteredData, currentPage, itemsPerPage, sortColumn,
                   sortDirection, searchTerm, columnFilter, authenticated, appShown,
                   spinnerShown, errorShown, tableShown, paginationShown, tableHead,
                   tableBody, pagination, fetching, reading>>
    /\ UNCHANGED pvars

\* a timer fires, the oldest first since all wait as long: later() runs
\* clearTimeout(timeout) and func(...args), which is handleSearch.  An id of
\* no pending timer clears nothing, as undefined does: timeout holds <<>> for it
timerFires ==
    /\ timers # <<>>
    /\ timers' = clearTimeout(Tail(timers), timeout)
    /\ timeout' = <<>>

searchTimerFires ==
    /\ timerFires
    /\ handleSearch(Head(timers).args)

\* handleKeyboard, Escape with the focus in searchInput
escapeKey ==
    /\ appShown
    /\ handleSearch("")
    /\ UNCHANGED <<timeout, timers>>

\* the options of the columnFilter select: "All Columns" and the headers
ColumnOptions == {""} \cup tableHead

\* handleColumnFilter had it rendered again without running filterData
handleColumnFilter_SkipsFilter(column) ==
    /\ appShown
    /\ column \in ColumnOptions
    /\ columnFilter' = column
    /\ currentPage' = 1
    /\ UNCHANGED <<data, filteredData, itemsPerPage, sortColumn, sortDirection,
                   searchTerm>>
    /\ Rendered
    /\ UNCHANGED <<authenticated, appShown, spinnerShown, errorShown, tableShown,
                   tableHead, fetching, reading, timeout, timers>>
    /\ UNCHANGED pvars

handleColumnFilter(column) ==
    /\ appShown
    /\ column \in ColumnOptions
    /\ columnFilter' = column
    /\ currentPage' = 1
    /\ UNCHANGED <<data, itemsPerPage, sortColumn, sortDirection, searchTerm>>
    /\ filterData
    /\ UNCHANGED <<authenticated, appShown, spinnerShown, errorShown, tableShown,
                   tableHead, fetching, reading, timeout, timers>>
    /\ UNCHANGED pvars

\* parseInt of an option value of entriesSelect
parseInt(value) == IF value = "-1" THEN -1 ELSE NumberOf(value)

\* handleEntriesChange had it kept the page shown
handleEntriesChange_KeepsPage(value) ==
    /\ appShown
    /\ itemsPerPage' = (IF value = "-1" THEN ShowAll ELSE parseInt(value))
    /\ UNCHANGED <<data, filteredData, currentPage, sortColumn, sortDirection,
                   searchTerm, columnFilter>>
    /\ Rendered
    /\ UNCHANGED <<authenticated, appShown, spinnerShown, errorShown, tableShown,
                   tableHead, fetching, reading, timeout, timers>>
    /\ UNCHANGED pvars

handleEntriesChange(value) ==
    /\ appShown
    /\ itemsPerPage' = (IF value = "-1" THEN ShowAll ELSE parseInt(value))
    /\ currentPage' = 1
    /\ UNCHANGED <<data, filteredData, sortColumn, sortDirection, searchTerm,
                   columnFilter>>
    /\ Rendered
    /\ UNCHANGED <<authenticated, appShown, spinnerShown, errorShown, tableShown,
                   tableHead, fetching, reading, timeout, timers>>
    /\ UNCHANGED pvars

\* the body of goToPage
goToPage(pageNum) ==
    /\ currentPage' = pageNum
    /\ UNCHANGED <<data, filteredData, itemsPerPage, sortColumn, sortDirection,
                   searchTerm, columnFilter>>
    /\ Rendered
    /\ UNCHANGED <<authenticated, appShown, spinnerShown, errorShown, tableShown,
                   tableHead, fetching, reading, timeout, timers>>
    /\ UNCHANGED pvars

\* what a handler leaves alone when it returns without calling goToPage
NoNavigation ==
    /\ UNCHANGED <<data, filteredData, currentPage, itemsPerPage, sortColumn,
                   sortDirection, searchTerm, columnFilter, authenticated, appShown,
                   spinnerShown, errorShown, tableShown, paginationShown, tableHead,
                   tableBody, pagination, fetching, reading, timeout, timers>>
    /\ UNCHANGED pvars

\* a click on one of the page buttons createPageButton made
pageButton(pageNum) ==
    /\ appShown /\ paginationShown
    /\ pageNum \in PageButtons
    /\ goToPage(pageNum)

\* prevBtn or the ArrowLeft key (the key is handled by the document)
previousPage ==
    IF currentPage > 1 THEN goToPage(currentPage - 1) ELSE NoNavigation

\* nextBtn or the ArrowRight key
nextPage ==
    LET totalPages == CeilDiv(Len(filteredData), itemsPerPage)
    IN IF currentPage < totalPages THEN goToPage(currentPage + 1) ELSE NoNavigation

(***************************************************************************)
(* The viewer.                                                             *)
(***************************************************************************)
Next ==
    \/ \E pw \in PasswordInputs : handleLogin(pw)
    \/ \E confirmed \in BOOLEAN : handleLogout(confirmed)
    \/ fetchRejected
    \/ \E ok \in BOOLEAN : fetchResolved(ok)
    \/ textRejected
    \/ \E text \in ServerTexts : textResolved(text)
    \/ \E column \in tableHead : handleSort(column)
    \/ \E value \in SearchInputs : searchInput(value)
    \/ searchTimerFires
    \/ escapeKey
    \/ \E column \in ColumnOptions : handleColumnFilter(column)
    \/ \E value \in EntriesOptions : handleEntriesChange(value)
    \/ \E pageNum \in PageButtons : pageButton(pageNum)
    \/ previousPage
    \/ nextPage

Spec == Init /\ [][Next]_vars

\* a timer that is set and not cleared fires once its wait has elapsed.  The
\* step of Next that takes a timer off the pending ones and sets none is
\* searchTimerFires, so the fairness is stated of its timer part
LiveSpec == Spec /\ WF_<<timers, timeout>>(timerFires)

(***************************************************************************)
(* The parser and the line splitter applied to every short text.           *)
(***************************************************************************)
\* the characters of the enumerated CSV texts
Alphabet == {"a", ",", "\"", " ", "\n"}

RECURSIVE TextsOfLen(_)
TextsOfLen(n) ==
    IF n = 0 THEN {""}
    ELSE {t \o c : t \in TextsOfLen(n - 1), c \in Alphabet}

\* the texts the specification spells out
ExampleTexts ==
    { "h\n\"a,b\",\"c\"\"d\"",
      "h,k\n\"a,b\",\"c\"\"d\"",
      "a,b\n1,2,3",
      "a,b\n1,2,3\n4,5\n\n6, 7\n\n" }

AllTexts == ExampleTexts \cup UNION {TextsOfLen(n) : n \in 0..MaxLen}

ParseInit ==
    /\ Constructed
    /\ authenticated = FALSE
    /\ appShown = FALSE
    /\ spinnerShown = FALSE
    /\ fetching = 0
    /\ csvText \in AllTexts
    /\ parsed = <<>>
    /\ fields = <<>>
    /\ ppc = "input"

DoParse ==
    /\ ppc = "input"
    /\ parsed' = parseCSV(csvText)
    /\ ppc' = "parsed"
    /\ UNCHANGED <<csvText, fields>>
    /\ UNCHANGED viewerVars

\* parseCSVLine is called on lines, which hold no newline
DoSplit ==
    /\ ppc = "input"
    /\ \A i \in 1..Len(csvText) : SubSeq(csvText, i, i) # "\n"
    /\ fields' = parseCSVLine(csvText)
    /\ ppc' = "split"
    /\ UNCHANGED <<csvText, parsed>>
    /\ UNCHANGED viewerVars

ParseNext == DoParse \/ DoSplit

ParseSpec == ParseInit /\ [][ParseNext]_vars

(***************************************************************************)
(* Properties of the viewer.                                               *)
(***************************************************************************)
\* ceil(n / d) for d > 0, stated by its defining inequalities
IsCeilOf(k, n, d) == k * d >= n /\ (k - 1) * d < n

\* the pagination on display was computed from the current filteredData
PaginationCurrent ==
    /\ pagination # NoPagination
    /\ pagination[1].totalItems = Len(filteredData)
    /\ pagination[1].showingAll = (itemsPerPage = ShowAll)

\* C1: for a bounded itemsPerPage the totalPages updatePagination computed is
\* ceil(filteredData.length / itemsPerPage) and is at least 1, so it is 1 when
\* filteredData is empty
C1_TotalPagesIsCeilAtLeastOne ==
    (PaginationCurrent /\ itemsPerPage # ShowAll) =>
        /\ Len(filteredData) > 0 =>
               IsCeilOf(pagination[1].totalPages, Len(filteredData), itemsPerPage)
        /\ Len(filteredData) = 0 => pagination[1].totalPages = 1
        /\ pagination[1].totalPages >= 1

\* the page count the specification gives: one page for "all", otherwise
\* ceil(totalItems / itemsPerPage) and at least 1
ClaimedTotalPages ==
    IF itemsPerPage = ShowAll THEN 1
    ELSE Max(1, CHOOSE k \in 0..Len(filteredData) :
                    IsCeilOf(k, Len(filteredData), itemsPerPage))

\* C2: after any sequence of handlers and load completions currentPage is in
\* 1..totalPages, the page count of the current filteredData and itemsPerPage
C2_CurrentPageInRange == currentPage \in 1..ClaimedTotalPages

\* the steps of the handlers, as the claims name them
NavigationStep ==
    \/ previousPage
    \/ nextPage
    \/ \E pageNum \in PageButtons : pageButton(pageNum)

LoadStep ==
    \/ fetchRejected
    \/ \E ok \in BOOLEAN : fetchResolved(ok)
    \/ textRejected
    \/ \E text \in ServerTexts : textResolved(text)

SearchStep == searchTimerFires \/ escapeKey

\* C3 as stated: currentPage changes only by goToPage, previousPage and
\* nextPage; handleSearch, handleColumnFilter, handleEntriesChange, handleSort,
\* filterData, loadData and handleLogout leave it unchanged
C3_OnlyNavigationChangesPage ==
    [][ /\ currentPage' # currentPage => NavigationStep
        /\ ( \/ SearchStep
             \/ \E column \in ColumnOptions : handleColumnFilter(column)
             \/ \E value \in EntriesOptions : handleEntriesChange(value)
             \/ \E column \in tableHead : handleSort(column)
             \/ LoadStep
             \/ \E confirmed \in BOOLEAN : handleLogout(confirmed) )
           => currentPage' = currentPage ]_vars

\* the handlers that set currentPage to 1
ResetStep ==
    \/ SearchStep
    \/ \E column \in ColumnOptions : handleColumnFilter(column)
    \/ \E value \in EntriesOptions : handleEntriesChange(value)
    \/ handleLogout(TRUE)

\* C3 as amended: currentPage changes only by goToPage, previousPage and
\* nextPage, or to 1 by handleSearch, handleColumnFilter, handleEntriesChange
\* and a confirmed handleLogout; handleSort, the load completions, a declined
\* logout, handleLogin and the search input event leave it unchanged
C3_PageChangesByNavigationOrReset ==
    [][ /\ currentPage' # currentPage => (NavigationStep \/ ResetStep)
        /\ ResetStep => currentPage' = 1
        /\ ( \/ \E column \in tableHead : handleSort(column)
             \/ LoadStep
             \/ handleLogout(FALSE)
             \/ \E pw \in PasswordInputs : handleLogin(pw)
             \/ \E value \in SearchInputs : searchInput(value) )
           => currentPage' = currentPage ]_vars

\* a load completed while page 2 was shown and left currentPage alone: the
\* one-row dataset it brought has a single page
C3_Witness ==
    /\ currentPage = 2
    /\ Len(data) = 1
    /\ filteredData = data
    /\ tableShown

\* C4: previousPage leaves currentPage unchanged at page 1 and otherwise takes
\* 1 off; nextPage leaves it unchanged at the last page (also with the "all"
\* page size and with an empty filteredData) and otherwise adds 1
C4_PreviousNextMoveByOne ==
    /\ currentPage = 1 => ENABLED (previousPage /\ currentPage' = currentPage)
    /\ currentPage # 1 => ENABLED (previousPage /\ currentPage' = currentPage - 1)
    /\ currentPage = ClaimedTotalPages
           => ENABLED (nextPage /\ currentPage' = currentPage)
    /\ currentPage # ClaimedTotalPages
           => ENABLED (nextPage /\ currentPage' = currentPage + 1)

\* C5: in every reachable state every row of filteredData is a row of data
C5_FilteredRowsAreDataRows ==
    \A i \in DOMAIN filteredData : \E j \in DOMAIN data : filteredData[i] = data[j]

\* a load attempt that ends in the catch block: the fetch rejects, the
\* response is not OK, the text cannot be read or it parses to no row
FailedLoadStep ==
    \/ fetchRejected
    \/ fetchResolved(FALSE)
    \/ textRejected
    \/ Len(data') = 0 /\ \E text \in ServerTexts : textResolved(text)

\* C6: a load attempt whose fetch fails, whose response is not OK or whose
\* text parses to zero rows ends with the error message shown and the table
\* and the pagination hidden, and runs neither setupTable nor filterData; the
\* table comes to be shown only by a load that parsed at least one row
C6_FailedLoadEndsInError ==
    [][ /\ FailedLoadStep =>
               /\ errorShown' /\ ~tableShown' /\ ~paginationShown' /\ ~spinnerShown'
               /\ UNCHANGED <<tableHead, filteredData, tableBody, pagination>>
        /\ (~tableShown /\ tableShown') =>
               /\ Len(data') >= 1
               /\ \E text \in ServerTexts : textResolved(text) ]_vars

\* a load of a text without rows failed after an earlier load had shown the
\* table: the error is shown, the table hidden, the rows of the earlier load
\* still rendered
C6_Witness ==
    /\ errorShown /\ ~tableShown /\ ~paginationShown
    /\ fetching = 0 /\ reading = 0
    /\ data = <<>>
    /\ tableBody # <<>>

\* the case-insensitive containment the specification describes
ContainsIgnoringCase(cell, term) ==
    \E i \in 1..(Len(cell) - Len(term) + 1) :
        \A k \in 1..Len(term) :
            LowerOf(SubSeq(cell, i + k - 1, i + k - 1)) = LowerOf(SubSeq(term, k, k))

\* the rows the specification keeps for a term: the one column of the column
\* filter contains it, or without a column filter some column does
MatchesSearch(row, term, column) ==
    IF column # ""
    THEN column \in DOMAIN row /\ ContainsIgnoringCase(row[column], term)
    ELSE \E c \in DOMAIN row : ContainsIgnoringCase(row[c], term)

IsIn(row, rows) == \E i \in DOMAIN rows : rows[i] = row

\* C9: with a non-empty search term a row of data is in filteredData exactly
\* when the column of the column filter (or, without one, some column) holds
\* the term, whatever the letter case of the term typed and of the cells
C9_FilterKeepsExactlyMatchingRows ==
    [][ /\ searchTerm' # "" =>
               \A j \in DOMAIN data' :
                   IsIn(data'[j], filteredData')
                       <=> MatchesSearch(data'[j], searchTerm', columnFilter')
        /\ \A typed \in SearchInputs :
               (typed # "" /\ timers # <<>> /\ Head(timers).args = typed
                      /\ searchTimerFires) =>
                   \A j \in DOMAIN data' :
                       IsIn(data'[j], filteredData')
                           <=> MatchesSearch(data'[j], typed, columnFilter') ]_vars

\* the term B typed with no column filter kept the rows B and ab of the three
\* rows loaded and dropped the row c
C9_Witness ==
    /\ searchTerm = "b"
    /\ columnFilter = ""
    /\ Len(data) = 3
    /\ Len(filteredData) = 2
    /\ \A i \in DOMAIN filteredData : filteredData[i].n \in {"B", "ab"}

\* the steps that run filterData
FilterStep ==
    \/ SearchStep
    \/ \E column \in ColumnOptions : handleColumnFilter(column)
    \/ \E column \in tableHead : handleSort(column)
    \/ Len(data') > 0 /\ \E text \in ServerTexts : textResolved(text)

\* C10: with an empty search term filterData keeps every row of data whatever
\* the column filter is, and with no sort column filteredData is data, in the
\* same order
C10_EmptyTermFilterIsIdentity ==
    [][ (searchTerm' = "" /\ FilterStep) =>
            /\ Len(filteredData') = Len(data')
            /\ \A j \in DOMAIN data' : IsIn(data'[j], filteredData')
            /\ sortColumn' = <<>> => filteredData' = data' ]_vars

\* a column filter chosen with no term typed and no sort column: the three
\* rows loaded are all in filteredData, in the order of data
C10_Witness ==
    /\ searchTerm = ""
    /\ columnFilter = "v"
    /\ sortColumn = <<>>
    /\ Len(data) = 3
    /\ filteredData = data

\* search terms as handleSearch stores them, and the columns of the datasets
FilterTerms == {"", "b", "a", "1", "ab", "z"}

FilterColumns == {"", "n", "v"}

\* filterData has run on the data held: no load that parsed no row has
\* replaced data since (such a load stores [] and throws before filterData)
FilterDataHasRun == Len(data) > 0 \/ Len(filteredData) = 0

\* a step that runs filterData and leaves data and the view state it reads
\* as they were
FilterAgainStep ==
    /\ UNCHANGED <<data, searchTerm, columnFilter, sortColumn, sortDirection>>
    /\ FilterStep

\* C11: filtering is idempotent, filter(filter(D, t, c), t, c) = filter(D, t, c)
\* for every term t and column c, for D the data held and for the rows
\* filterData stored; and filterData run again on unchanged data and view
\* state leaves filteredData as it is: filteredData is what filterData
\* computes from the state, and a handler that runs it again does not change it
C11_FilterIdempotent ==
    /\ [](\A t \in FilterTerms : \A c \in FilterColumns :
             filterRows(filterRows(data, t, c), t, c) = filterRows(data, t, c))
    /\ [](filterRows(filteredData, searchTerm, columnFilter) = filteredData)
    /\ [](FilterDataHasRun =>
             filteredData = sortRows(filterRows(data, searchTerm, columnFilter),
                                     sortColumn, sortDirection))
    /\ [][ (FilterDataHasRun /\ FilterAgainStep) => filteredData' = filteredData ]_vars

\* the term b searched in the column n of the three rows loaded: two rows kept
C11_Witness ==
    /\ searchTerm = "b"
    /\ columnFilter = "n"
    /\ Len(data) = 3
    /\ Len(filteredData) = 2
    /\ tableShown

\* sub holds elements of seq in the order they have in seq
IsOrderedSubsequence(sub, seq) ==
    \E f \in [DOMAIN sub -> DOMAIN seq] :
        /\ \A i \in DOMAIN sub : seq[f[i]] = sub[i]
        /\ \A i, j \in DOMAIN sub : i < j => f[i] < f[j]

\* C12: while sortColumn is unset the sort is a no-op and the filter is
\* stable: for every term and column filter the rows kept stand in the order
\* they have in data, and so do the rows of the filteredData that filterData
\* stores
C12_UnsortedFilterKeepsOrder ==
    /\ [](\A t \in FilterTerms : \A c \in FilterColumns :
             \A d \in {"asc", "desc"} :
                 LET kept == filterRows(data, t, c) IN
                 /\ sortRows(kept, <<>>, d) = kept
                 /\ IsOrderedSubsequence(kept, data))
    /\ [][ (sortColumn' = <<>> /\ FilterStep) =>
                IsOrderedSubsequence(filteredData', data') ]_vars

\* no sort column and the term b: the first two of the three rows loaded are
\* kept, in the order of data
C12_Witness ==
    /\ sortColumn = <<>>
    /\ searchTerm = "b"
    /\ Len(data) = 3
    /\ filteredData = <<data[1], data[2]>>

\* how often the row stands in the sequence
Occurrences(row, rows) == Cardinality({i \in DOMAIN rows : rows[i] = row})

\* the two sequences hold the same rows, each as often
SameMultiset(a, b) ==
    /\ Len(a) = Len(b)
    /\ \A i \in DOMAIN a : Occurrences(a[i], a) = Occurrences(a[i], b)

\* the columns a header may be clicked for, and one no row has
SortColumns == {"n", "v", "w"}

\* C13: sorting is a permutation: for every sort column and direction the
\* sorted rows are the same multiset as the rows before sorting, also where
\* rows are equal or their keys tie (the rows of data followed by those of
\* filteredData); and the filteredData a step of filterData
\* stores with a sort column set holds exactly the rows the filter kept
C13_SortIsPermutation ==
    /\ [](\A col \in SortColumns : \A d \in {"asc", "desc"} :
             LET rows == data \o filteredData IN
             SameMultiset(sortRows(rows, <<col>>, d), rows))
    /\ [][ (sortColumn' # <<>> /\ FilterStep) =>
                SameMultiset(filteredData',
                             filterRows(data', searchTerm', columnFilter')) ]_vars

\* the three rows loaded sorted by n descending: c, B, ab
C13_Witness ==
    /\ sortColumn = <<"n">>
    /\ sortDirection = "desc"
    /\ searchTerm = ""
    /\ Len(data) = 3
    /\ filteredData = <<data[3], data[1], data[2]>>

\* the number the cell of the row in the column parses as, <<>> for none
NumericValue(row, column) == parseFloat(SortValue(row, column))

AllNumeric(rows, column) ==
    \A i \in DOMAIN rows : NumericValue(rows[i], column) # <<>>

\* the numbers of the column do not fall (asc) or rise (desc) along the rows
InNumericOrder(rows, column, direction) ==
    \A i \in 1..(Len(rows) - 1) :
        LET x == NumericValue(rows[i], column)[1]
            y == NumericValue(rows[i + 1], column)[1]
        IN IF direction = "asc" THEN x <= y ELSE x >= y

\* the values of the example of the specification
ExampleValues == <<[v |-> "10"], [v |-> "2"], [v |-> "1"]>>

\* C14: when every value of the sort column parses as a number filteredData
\* is in non-decreasing numeric order of the column after an ascending sort
\* and in non-increasing order after a descending one; the values 10, 2, 1
\* sort ascending to 1, 2, 10 and descending to 10, 2, 1
C14_NumericSortOrder ==
    /\ (sortColumn # <<>> /\ AllNumeric(filteredData, sortColumn[1]))
           => InNumericOrder(filteredData, sortColumn[1], sortDirection)
    /\ sortRows(ExampleValues, <<"v">>, "asc")
           = <<[v |-> "1"], [v |-> "2"], [v |-> "10"]>>
    /\ sortRows(ExampleValues, <<"v">>, "desc") = ExampleValues

\* the three rows loaded, v = 10, 2, 1, after a click on the header v: sorted
\* by v ascending they stand as 1, 2, 10
C14_Witness ==
    /\ sortColumn = <<"v">>
    /\ sortDirection = "asc"
    /\ Len(filteredData) = 3
    /\ filteredData[1].v = "1"
    /\ filteredData[2].v = "2"
    /\ filteredData[3].v = "10"

\* the steps that run renderTable and updatePagination
RenderStep ==
    \/ FilterStep
    \/ \E value \in EntriesOptions : handleEntriesChange(value)
    \/ NavigationStep

\* the pages asked for: those of one row a page and one beyond
PagesAsked == 1..(Len(data) + 1)

\* C15: with itemsPerPage the "all" sentinel -1 totalPages is 1 and the rows
\* rendered are the whole of filteredData, whatever currentPage is: so for
\* every page asked of renderTable and updatePagination, and so after every
\* step that renders
C15_ShowAllIsOnePage ==
    /\ [](\A page \in PagesAsked : \A rows \in {data, filteredData} :
             /\ renderTable(rows, page, ShowAll) = rows
             /\ updatePagination(rows, page, ShowAll).totalPages = 1
             /\ ~PaginationDisplayed(ShowAll, TotalPages(Len(rows), ShowAll)))
    /\ [][ (itemsPerPage' = ShowAll /\ RenderStep) =>
                /\ tableBody' = filteredData'
                /\ pagination'[1].totalPages = 1
                /\ pagination'[1].showingAll
                /\ ~paginationShown' ]_vars

\* "all" chosen with three rows loaded: one page, the three rows rendered
C15_Witness ==
    /\ itemsPerPage = ShowAll
    /\ Len(filteredData) = 3
    /\ tableBody = filteredData
    /\ pagination # NoPagination
    /\ pagination[1].totalPages = 1
    /\ tableShown

\* the bounded page sizes of entriesSelect
BoundedPageSizes == {parseInt(value) : value \in EntriesOptions} \ {ShowAll}

RECURSIVE ConcatPages(_, _, _, _)
\* the rows renderTable shows on the pages from..to, one page after the other
ConcatPages(rows, size, from, to) ==
    IF from > to THEN <<>>
    ELSE renderTable(rows, from, size) \o ConcatPages(rows, size, from + 1, to)

\* the rows at the positions (page - 1) * size + 1 .. page * size of the
\* sequence, as far as it reaches
RowsOfPage(rows, page, size) ==
    LET first == (page - 1) * size + 1
        last == Min(page * size, Len(rows))
    IN [i \in 1..Max(0, last - first + 1) |-> rows[first + i - 1]]

\* C16: for a bounded itemsPerPage the slices of the pages 1..totalPages put
\* one after the other are filteredData, each page holding the rows at its
\* own positions, and a page beyond totalPages has an empty slice; the rows
\* rendered by a step are those of currentPage
C16_PagesCoverFilteredData ==
    /\ [](\A size \in BoundedPageSizes : \A rows \in {data, filteredData} :
             LET totalPages == updatePagination(rows, 1, size).totalPages IN
             /\ ConcatPages(rows, size, 1, totalPages) = rows
             /\ \A page \in 1..totalPages :
                    renderTable(rows, page, size) = RowsOfPage(rows, page, size)
             /\ \A beyond \in 1..2 :
                    renderTable(rows, totalPages + beyond, size) = <<>>)
    /\ [][ (itemsPerPage' # ShowAll /\ RenderStep) =>
                tableBody' = RowsOfPage(filteredData', currentPage', itemsPerPage') ]_vars

\* two rows a page and three rows: page 2 shows the third row
C16_Witness ==
    /\ itemsPerPage = 2
    /\ currentPage = 2
    /\ Len(filteredData) = 3
    /\ tableBody = <<filteredData[3]>>
    /\ tableShown

\* C17: for a bounded itemsPerPage the startItem and endItem displayed are
\* the positions in filteredData of the first and the last row rendered: with
\* totalItems > 0, 1 <= startItem <= endItem <= totalItems and
\* endItem - startItem + 1 rows are rendered; with totalItems = 0 both are 0
C17_StartEndItemsArePositions ==
    (pagination # NoPagination /\ ~pagination[1].showingAll) =>
        LET shown == pagination[1] IN
        /\ shown.totalItems > 0 =>
               /\ 1 <= shown.startItem
               /\ shown.startItem <= shown.endItem
               /\ shown.endItem <= shown.totalItems
               /\ shown.endItem - shown.startItem + 1 = Len(tableBody)
        /\ shown.totalItems = 0 => (shown.startItem = 0 /\ shown.endItem = 0)

\* the handlers of filtering, sorting and pagination
ViewStep ==
    \/ SearchStep
    \/ \E column \in ColumnOptions : handleColumnFilter(column)
    \/ \E column \in tableHead : handleSort(column)
    \/ \E value \in EntriesOptions : handleEntriesChange(value)
    \/ NavigationStep

\* C18: handleSearch, handleColumnFilter, handleSort, handleEntriesChange,
\* the filterData they run, goToPage, previousPage and nextPage leave data as
\* it is, in content and in order; data changes only when the text of a load
\* has been read and parsed or on a confirmed logout
C18_ViewHandlersKeepData ==
    [][ /\ ViewStep => data' = data
        /\ data' # data => ( \/ \E text \in ServerTexts : textResolved(text)
                             \/ handleLogout(TRUE) ) ]_vars

\* the three rows searched for b, sorted by v descending and shown one row a
\* page on page 2: data is as it was loaded
C18_Witness ==
    /\ searchTerm = "b"
    /\ sortColumn = <<"v">>
    /\ sortDirection = "desc"
    /\ itemsPerPage = 1
    /\ currentPage = 2
    /\ Len(data) = 3
    /\ data[1].n = "B" /\ data[2].n = "ab" /\ data[3].n = "c"
    /\ filteredData = <<data[1], data[2]>>
    /\ tableBody = <<data[2]>>

\* C19: while the viewer is logged out (the session flag is cleared) data and
\* filteredData are empty, also when a load started before the logout
\* completes after it: a completing load neither populates data nor shows the
\* table while logged out
C19_LoggedOutStaysEmpty ==
    /\ [](~authenticated => (data = <<>> /\ filteredData = <<>>))
    /\ [][ (~authenticated /\ LoadStep) =>
                (data' = <<>> /\ filteredData' = <<>> /\ (tableShown' => tableShown)) ]_vars

\* the rows of data the view state keeps: all of them without a search term,
\* with one those that hold it
KeptRow(row, term, column) == term = "" \/ MatchesSearch(row, term, column)

\* C20: handleSearch, handleColumnFilter and handleEntriesChange leave
\* currentPage = 1 whatever page was shown; handleSearch and
\* handleColumnFilter derive filteredData anew from data (its rows are the
\* rows of data the new term and column keep); handleEntriesChange leaves
\* filteredData, searchTerm, columnFilter, sortColumn and sortDirection alone
C20_HandlersResetPage ==
    [][ /\ (SearchStep \/ \E column \in ColumnOptions : handleColumnFilter(column))
               => /\ currentPage' = 1
                  /\ data' = data
                  /\ \A i \in DOMAIN filteredData' :
                         /\ IsIn(filteredData'[i], data)
                         /\ Occurrences(filteredData'[i], filteredData')
                                = Occurrences(filteredData'[i], data)
                  /\ \A j \in DOMAIN data :
                         IsIn(data[j], filteredData')
                             <=> KeptRow(data[j], searchTerm', columnFilter')
        /\ (\E value \in EntriesOptions : handleEntriesChange(value))
               => /\ currentPage' = 1
                  /\ UNCHANGED <<data, filteredData, searchTerm, columnFilter,
                                 sortColumn, sortDirection>> ]_vars

\* page 2 of two is shown, one row a page, with a term and a sort column set:
\* choosing two rows a page goes to page 1 and keeps filteredData
C20_Witness ==
    /\ appShown
    /\ currentPage = 2
    /\ itemsPerPage = 1
    /\ searchTerm = "b"
    /\ sortColumn = <<"n">>
    /\ Len(filteredData) = 2
    /\ ENABLED ( /\ handleEntriesChange("2")
                 /\ currentPage' = 1
                 /\ filteredData' = filteredData
                 /\ Len(tableBody') = 2 )

\* no row stands before a row that the comparator puts before it
InSortOrder(rows, column, direction) ==
    \A i, j \in DOMAIN rows :
        i < j => compareRows(rows[i], rows[j], column, direction) <= 0

\* C21: handleSort(c) toggles: with c the sort column already, sortDirection
\* flips between asc and desc and sortColumn stays c; otherwise sortColumn
\* becomes c and sortDirection asc. Either way filteredData holds the rows it
\* held, in the order of the new column and direction, and searchTerm,
\* columnFilter, itemsPerPage and currentPage are as before. No step unsets a
\* sort column once set
C21_HandleSortToggles ==
    [][ /\ \A c \in tableHead :
               handleSort(c) =>
                   /\ sortColumn' = <<c>>
                   /\ sortDirection' =
                          (IF sortColumn = <<c>>
                           THEN (IF sortDirection = "asc" THEN "desc" ELSE "asc")
                           ELSE "asc")
                   /\ SameMultiset(filteredData', filteredData)
                   /\ InSortOrder(filteredData', c, sortDirection')
                   /\ UNCHANGED <<searchTerm, columnFilter, itemsPerPage, currentPage>>
        /\ sortColumn # <<>> => sortColumn' # <<>> ]_vars

\* the header n clicked twice while page 2 of two rows a page is shown: the
\* three rows stand as c, B, ab and page 2 is still the one shown
C21_Witness ==
    /\ sortColumn = <<"n">>
    /\ sortDirection = "desc"
    /\ itemsPerPage = 2
    /\ currentPage = 2
    /\ Len(filteredData) = 3
    /\ filteredData[1].n = "c" /\ filteredData[2].n = "B" /\ filteredData[3].n = "ab"
    /\ tableBody = <<filteredData[3]>>
    /\ tableShown

\* the values of the pending timers, the oldest first
PendingValues == [k \in DOMAIN timers |-> timers[k].args]

RawLines == Split(csvText)

IsBlank(line) == \A i \in 1..Len(line) : SubSeq(line, i, i) \in WhiteSpace

NonBlankLines == {i \in DOMAIN RawLines : ~IsBlank(RawLines[i])}

\* the header is the first line that is not blank
HeaderLine == CHOOSE i \in NonBlankLines : \A j \in NonBlankLines : i <= j

LastLine == CHOOSE i \in NonBlankLines : \A j \in NonBlankLines : j <= i

FieldCount(line) == Len(parseCSVLine(line))

\* the data lines with as many fields as the header; the blank lines behind
\* the last line that is not blank are no data lines
AcceptedLines ==
    {i \in (HeaderLine + 1)..LastLine :
        FieldCount(RawLines[i]) = FieldCount(RawLines[HeaderLine])}

\* the record holds the values of the line under the names of the header
IsRecordOf(row, headers, values) ==
    /\ DOMAIN row = Range(headers)
    /\ \A h \in Range(headers) :
           \E j \in DOMAIN headers : headers[j] = h /\ row[h] = values[j]

\* C7: parseCSV returns, in input order, one record for each data line with
\* as many fields as the header and none for a line with another field count
\* (header a,b with row 1,2,3 yields no record); a blank line at the end of
\* the input yields no record
C7_ParseKeepsLinesOfHeaderWidth ==
    ppc = "parsed" =>
        /\ IF NonBlankLines = {} THEN parsed = <<>>
           ELSE /\ Len(parsed) = Cardinality(AcceptedLines)
                /\ \A i \in AcceptedLines :
                       IsRecordOf(parsed[Cardinality({j \in AcceptedLines : j <= i})],
                                  parseCSVLine(RawLines[HeaderLine]),
                                  parseCSVLine(RawLines[i]))
        /\ csvText = "a,b\n1,2,3" => parsed = <<>>

\* a text with a line too wide, two lines of the header's width, a blank line
\* between them and blank lines at the end: the two lines are the records
C7_Witness ==
    /\ ppc = "parsed"
    /\ csvText = "a,b\n1,2,3\n4,5\n\n6, 7\n\n"
    /\ parsed = <<[a |-> "4", b |-> "5"], [a |-> "6", b |-> "7"]>>

Quote == "\""

QuoteFree(s) == \A i \in 1..Len(s) : SubSeq(s, i, i) # Quote

CommaFree(s) == \A i \in 1..Len(s) : SubSeq(s, i, i) # ","

\* s is a quote, a text without quotes, a quote
IsQuoted(s) ==
    /\ Len(s) >= 2
    /\ SubSeq(s, 1, 1) = Quote
    /\ SubSeq(s, Len(s), Len(s)) = Quote
    /\ QuoteFree(SubSeq(s, 2, Len(s) - 1))

Inner(s) == SubSeq(s, 2, Len(s) - 1)

\* C8 as stated, its example: parsing h\n"a,b","c""d" yields records in
\* which the quoted comma did not split a field and "" became "
C8_ExampleYieldsRecords ==
    (ppc = "parsed" /\ csvText = "h\n\"a,b\",\"c\"\"d\"") =>
        /\ Len(parsed) >= 1
        /\ \A k \in DOMAIN parsed :
               /\ \E c \in DOMAIN parsed[k] : parsed[k][c] = "a,b"
               /\ \E c \in DOMAIN parsed[k] : parsed[k][c] = "c\"d"

\* C8 as amended: every field is trimmed; a line without quotes has one field
\* more than commas; a comma between an opening and its closing quote does not
\* end the field and the delimiting quotes are not part of the value; a
\* doubled quote in a quoted field is one quote character; the text
\* h,k\n"a,b","c""d" yields the one record h = a,b, k = c"d, and with the
\* single-column header h the line has a field too many and yields no record
C8_SplitterHonoursQuotes ==
    /\ ppc = "split" =>
           /\ \A f \in DOMAIN fields : Trim(fields[f]) = fields[f]
           /\ QuoteFree(csvText) =>
                  Len(fields) = 1 + Cardinality({i \in 1..Len(csvText) :
                                                     SubSeq(csvText, i, i) = ","})
           /\ (QuoteFree(csvText) /\ CommaFree(csvText)) => fields = <<Trim(csvText)>>
           /\ IsQuoted(csvText) => fields = <<Trim(Inner(csvText))>>
           /\ \A p \in 2..(Len(csvText) - 2) :
                  ( /\ SubSeq(csvText, 1, 1) = Quote
                    /\ SubSeq(csvText, Len(csvText), Len(csvText)) = Quote
                    /\ SubSeq(csvText, p, p + 1) = Quote \o Quote
                    /\ QuoteFree(SubSeq(csvText, 2, p - 1))
                    /\ QuoteFree(SubSeq(csvText, p + 2, Len(csvText) - 1)) )
                  => fields = <<Trim(SubSeq(csvText, 2, p - 1) \o Quote
                                     \o SubSeq(csvText, p + 2, Len(csvText) - 1))>>
    /\ ppc = "parsed" =>
           /\ csvText = "h,k\n\"a,b\",\"c\"\"d\""
                  => parsed = <<[h |-> "a,b", k |-> "c\"d"]>>
           /\ csvText = "h\n\"a,b\",\"c\"\"d\"" => parsed = <<>>

\* the example under a header of two columns, parsed
C8_Witness ==
    /\ ppc = "parsed"
    /\ csvText = "h,k\n\"a,b\",\"c\"\"d\""
    /\ Len(parsed) = 1
    /\ parsed[1].h = "a,b"
    /\ parsed[1].k = "c\"d"
====
